---------------------------- MODULE Spec2Model ----------------------------
(***************************************************************************)
(* Game2048 (src/rl_2048/__init__.py): the step/reset protocol and the     *)
(* board, score and termination readers, run against the rendered game.    *)
(* The game page itself (rl_2048/game) is modelled from spec.md: its move  *)
(* rules, its render frames and the text of its score container.           *)
(***************************************************************************)
EXTENDS Integers, Sequences, FiniteSets, TLC

VARIABLES
    grid,       \* game: cell <<x, y>> -> tile value, 0 when empty
    gscore,     \* game: cumulative score
    gover,      \* game: no move remains
    pending,    \* game: render frames scheduled and not yet drawn
    dom,        \* the rendered surface the Session reads
    op,         \* the method the caller is in: "none" between calls
    pc,         \* the position inside that method
    stage,      \* step: which get_score call is running, "prev" or "new"
    action,     \* step: the action index passed
    delay,      \* step, reset: the settle delay passed, in render frames
    prev_score, \* step: local prev_score
    state,      \* get_state: local state, state[row][col]
    row,        \* get_state: loop variable
    col,        \* get_state: loop variable
    tiles,      \* get_state: the nodes find_elements returned
    stale,      \* get_state: those nodes were removed by a re-render
    score_text, \* get_score: local score_text
    reward,     \* step: local reward
    ret,        \* what the last call returned or raised
    calls,      \* number of step and reset calls the caller has made
    sent,       \* commands delivered to the game during the current call
    touched,    \* the current call has used the Session
    slept,      \* the current call has waited its settle delay
    settled,    \* the last command was followed by a wait of a full render
    lastGS,     \* the last two boards extracted since the last step or reset
    lastOver,   \* last value of is_over / done since the last reset
    budget,     \* number of step and reset calls the caller will make
    watch,      \* the tile layers drawn during an extraction are recorded
    page,       \* which of the nodes looked up by class the page has
    effect,     \* what the current call's action does to the game
    seen,       \* the tile layers drawn while the last extraction ran
    lastNew     \* the score the preceding step read last, when it returned

vars == <<grid, gscore, gover, pending, dom, op, pc, stage, action, delay,
          prev_score, state, row, col, tiles, stale, score_text, reward, ret,
          calls, sent, touched, slept, settled, lastGS, lastOver, budget,
          watch, page, effect, seen, lastNew>>

gameVars == <<grid, gscore, gover, pending>>
localVars == <<stage, action, delay, prev_score, state, row, col, tiles,
               stale, score_text, reward>>
histVars == <<sent, touched, slept, settled, lastGS, lastOver>>
ctx == <<budget, watch, page>>

----------------------------------------------------------------------------
(* Bounds of the model *)

MaxCalls == 1       \* step and reset calls the caller makes in one behaviour
MaxSpawn == 1       \* the random tile lands on one of the first MaxSpawn empty cells

(* Program constants *)

N == 4              \* board side: range(4)
NumActions == 4     \* len(self.actions)
SettleFrames == 2   \* render frames one board update takes

None == -1          \* Python None in an integer slot

Idx == 0 .. (N - 1)
Coord == 1 .. N
Cells == Coord \X Coord

Max(a, b) == IF a > b THEN a ELSE b
Min(a, b) == IF a < b THEN a ELSE b

----------------------------------------------------------------------------
(* Text: a string of decimal digits is a sequence over 0..9 *)

RECURSIVE Str(_)
Str(n) == IF n < 10 THEN <<n>> ELSE Str(n \div 10) \o <<n % 10>>

RECURSIVE DigitsValue(_)
DigitsValue(s) ==
    IF s = <<>> THEN 0
    ELSE 10 * DigitsValue(SubSeq(s, 1, Len(s) - 1)) + s[Len(s)]

\* int(text): ValueError on the empty string
IntParse(s) ==
    IF s = <<>> THEN [ok |-> FALSE, val |-> 0]
    ELSE [ok |-> TRUE, val |-> DigitsValue(s)]

StartsWith(s, sub) ==
    /\ Len(sub) <= Len(s)
    /\ SubSeq(s, 1, Len(sub)) = sub

\* text.replace(sub, ''): every non-overlapping occurrence, left to right
RECURSIVE Replace(_, _)
Replace(s, sub) ==
    IF sub = <<>> \/ s = <<>> THEN s
    ELSE IF StartsWith(s, sub)
         THEN Replace(SubSeq(s, Len(sub) + 1, Len(s)), sub)
         ELSE <<Head(s)>> \o Replace(Tail(s), sub)

----------------------------------------------------------------------------
(* The game page (modelled from spec.md): rules of the tile-merging game *)

Keys == <<"UP", "LEFT", "DOWN", "RIGHT">>

\* the cells of lane k in the order a tile moving in direction d meets them,
\* starting at the wall it moves to
Lane(d, k) ==
    [i \in Coord |->
        CASE d = "UP"    -> <<k, i>>
          [] d = "DOWN"  -> <<k, N + 1 - i>>
          [] d = "LEFT"  -> <<i, k>>
          [] d = "RIGHT" -> <<N + 1 - i, k>>]

Compact(vals) == SelectSeq(vals, LAMBDA v : v # 0)

RECURSIVE MergeSeq(_)
MergeSeq(s) ==
    IF s = <<>> THEN <<>>
    ELSE IF Len(s) >= 2 /\ s[1] = s[2]
         THEN <<[val |-> 2 * s[1], merged |-> TRUE]>>
                  \o MergeSeq(SubSeq(s, 3, Len(s)))
         ELSE <<[val |-> s[1], merged |-> FALSE]>> \o MergeSeq(Tail(s))

\* the board after sliding direction d, before the new tile is dealt
MoveResult(g, d) ==
    LET res == [k \in Coord |->
                   MergeSeq(Compact([i \in Coord |-> g[Lane(d, k)[i]]]))]
        at(c) == CHOOSE ki \in Coord \X Coord : Lane(d, ki[1])[ki[2]] = c
    IN  [c \in Cells |->
            LET ki == at(c)
            IN  IF ki[2] <= Len(res[ki[1]])
                THEN res[ki[1]][ki[2]]
                ELSE [val |-> 0, merged |-> FALSE]]

RECURSIVE SumVals(_, _)
SumVals(r, cs) ==
    IF cs = {} THEN 0
    ELSE LET c == CHOOSE x \in cs : TRUE
         IN  r[c].val + SumVals(r, cs \ {c})

Gain(r) == SumVals(r, {c \in Cells : r[c].merged})

AllCells == [i \in 1 .. (N * N) |-> <<((i - 1) % N) + 1, ((i - 1) \div N) + 1>>]

EmptySeq(g) == SelectSeq(AllCells, LAMBDA c : g[c] = 0)

SpawnCells(g) ==
    {EmptySeq(g)[i] : i \in 1 .. Min(MaxSpawn, Len(EmptySeq(g)))}

SpawnVals == {2, 4}

MovesAvailable(g) ==
    \/ \E c \in Cells : g[c] = 0
    \/ \E c \in Cells :
          \/ c[1] < N /\ g[c] = g[<<c[1] + 1, c[2]>>]
          \/ c[2] < N /\ g[c] = g[<<c[1], c[2] + 1>>]

----------------------------------------------------------------------------
(* The game page (modelled from spec.md): what it renders *)

Node(v, m) == [text |-> Str(v), merged |-> m]

\* a tile that is appearing: drawn, its text not yet visible
Blank == [text |-> <<>>, merged |-> FALSE]

Opt(b, x) == IF b THEN <<x>> ELSE <<>>

\* the score container's text: the score, then the child annotation's text
ScoreView(s, gain) ==
    [scoreText |-> Str(s) \o (IF gain > 0 THEN Str(gain) ELSE <<>>),
     child     |-> Opt(gain > 0, Str(gain)),
     S         |-> s,
     A         |-> Max(gain, 0)]

View(tl, s, gain, over) ==
    [tiles |-> tl, over |-> over] @@ ScoreView(s, gain)

\* a board at rest: one node per tile
StableTiles(g) == [c \in Cells |-> Opt(g[c] # 0, Node(g[c], FALSE))]

\* first frame of a move: the container is rebuilt, old tiles at the cell
\* they leave, merge results and the new tile where they land
Frame1Tiles(old, r, sp) ==
    [c \in Cells |->
        Opt(old[c] # 0, Node(old[c], FALSE))
          \o Opt(r[c].merged, Node(r[c].val, TRUE))
          \o Opt(c = sp, Blank)]

\* last frame of a move: every tile at the cell it lands on; a merge result
\* stays with the two tiles it was made of
Frame2Tiles(r, sp, spv) ==
    [c \in Cells |->
        IF r[c].merged
        THEN <<Node(r[c].val \div 2, FALSE), Node(r[c].val \div 2, FALSE),
               Node(r[c].val, TRUE)>>
        ELSE IF c = sp THEN <<Node(spv, FALSE)>>
        ELSE Opt(r[c].val # 0, Node(r[c].val, FALSE))]

MoveFrames(old, r, sp, spv, s, over) ==
    <<[clear |-> TRUE,
       view  |-> View(Frame1Tiles(old, r, sp), s, Gain(r), over)],
      [clear |-> FALSE,
       view  |-> View(Frame2Tiles(r, sp, spv), s, Gain(r), over)]>>

RestartFrames(g) ==
    <<[clear |-> TRUE,
       view  |-> View([c \in Cells |-> Opt(g[c] # 0, Blank)], 0, 0, FALSE)],
      [clear |-> FALSE,
       view  |-> View(StableTiles(g), 0, 0, FALSE)]>>

\* the game handles one key press: grid, score, flag and frames after it
KeyOutcomes(d) ==
    IF gover \/ [c \in Cells |-> MoveResult(grid, d)[c].val] = grid
    THEN {[grid |-> grid, gscore |-> gscore, gover |-> gover,
           pending |-> pending]}
    ELSE LET r  == MoveResult(grid, d)
             g1 == [c \in Cells |-> r[c].val]
         IN  {LET g2 == [g1 EXCEPT ![sp] = spv]
              IN  [grid    |-> g2,
                   gscore  |-> gscore + Gain(r),
                   gover   |-> ~MovesAvailable(g2),
                   pending |-> MoveFrames(grid, r, sp, spv,
                                          gscore + Gain(r),
                                          ~MovesAvailable(g2))]
              : sp \in SpawnCells(g1), spv \in SpawnVals}

GridOf(rows) == [c \in Cells |-> rows[c[2]][c[1]]]

StartGrids ==
    {GridOf(<<<<2, 2, 0, 0>>, <<0, 0, 0, 0>>, <<0, 0, 0, 0>>, <<0, 0, 0, 0>>>>),
     GridOf(<<<<0, 0, 0, 0>>, <<0, 2, 0, 0>>, <<0, 0, 0, 4>>, <<0, 0, 0, 0>>>>)}

\* the games the page may hold when the environment is constructed
LoadedGames ==
    {[grid |-> g, gscore |-> 0] : g \in StartGrids}
    \cup
    {[grid |-> GridOf(<<<<2, 2, 4, 8>>, <<0, 0, 0, 0>>,
                        <<0, 0, 0, 0>>, <<0, 0, 0, 0>>>>),
      gscore |-> 20],
     [grid |-> GridOf(<<<<2, 4, 2, 4>>, <<4, 2, 4, 2>>,
                        <<2, 4, 2, 4>>, <<0, 4, 2, 4>>>>),
      gscore |-> 16]}

----------------------------------------------------------------------------
(* Game2048: pure parts *)

ZeroBoard == [r \in Idx |-> [c \in Idx |-> 0]]

\* the board get_state returns when it reads grid g at rest
BoardOf(g) == [r \in Idx |-> [c \in Idx |-> g[<<c + 1, r + 1>>]]]

\* tile_class = f'tile-position-{col + 1}-{row + 1}'
TileClass(r, c) == <<c + 1, r + 1>>

\* self.actions[action]: Python list indexing
ListIndex(n, i) ==
    IF 0 <= i /\ i < n THEN [ok |-> TRUE, idx |-> i]
    ELSE IF -n <= i /\ i < 0 THEN [ok |-> TRUE, idx |-> n + i]
    ELSE [ok |-> FALSE, idx |-> 0]

\* variant: the sleep returns at once
SleepNone(d) == 0

\* time.sleep(delay): the render frames that pass meanwhile
SleepFrames(d) == d

\* variant: the multi-node branch takes tiles[0]
PickFirst(ts) == 1

\* index of the node the multi-node branch takes: the first whose class
\* holds 'merged', 0 when the for loop ends without a break
PickMerged(ts) ==
    IF \E i \in 1 .. Len(ts) : ts[i].merged
    THEN CHOOSE i \in 1 .. Len(ts) :
            /\ ts[i].merged
            /\ \A j \in 1 .. (i - 1) : ~ts[j].merged
    ELSE 0

\* the body of the try block for one find_elements result: the value given
\* to tile_num, or the ValueError raised by int()
CellOutcome(ts) ==
    IF Len(ts) = 0 THEN [ok |-> TRUE, val |-> 0]
    ELSE IF Len(ts) = 1 THEN IntParse(ts[1].text)
    ELSE IF PickMerged(ts) = 0 THEN [ok |-> TRUE, val |-> None]
    ELSE IntParse(ts[PickMerged(ts)].text)

\* variant: the body runs once per cell (if instead of while)
LoopExitsOnce(tile_num) == TRUE

\* while tile_num is None
LoopExits(tile_num) == tile_num # None

\* lines 145-152 of get_score: the child text removed, the rest parsed
GetScoreValue(text, child) ==
    IntParse(IF child # <<>> THEN Replace(text, child[1]) ELSE text)

\* variant: the two statuses swapped
IsOverInverted(found) == ~found

\* is_over: the status for a found / not found 'game-over' element
IsOverStatus(found) == found

\* variant: step without its time.sleep
StepFlowNoWait(at) ==
    CASE at = "prev"    -> "perform"
      [] at = "perform" -> "gs_init"
      [] at = "sleep"   -> "gs_init"
      [] at = "state"   -> "sc_text"
      [] at = "new"     -> "over"

\* step, lines 94-100: the statement that follows each statement
StepFlow(at) ==
    CASE at = "prev"    -> "perform"
      [] at = "perform" -> "sleep"
      [] at = "sleep"   -> "gs_init"
      [] at = "state"   -> "sc_text"
      [] at = "new"     -> "over"

----------------------------------------------------------------------------
(* Game2048: calls and their steps *)

ActionInputs == {-5, -4, -1, 0, 1, 2, 3, 4, 7}
DelayInputs == {0, SettleFrames}

RetOf(o, e, b, rw, dn, sc) ==
    [op |-> o, err |-> e, board |-> b, reward |-> rw, done |-> dn,
     score |-> sc]

NoRet == RetOf("none", "none", ZeroBoard, 0, FALSE, 0)

\* a call ends: its locals are gone
Return(r) ==
    /\ ret' = r
    /\ op' = "none"
    /\ pc' = "idle"
    /\ stage' = "none"
    /\ prev_score' = 0
    /\ state' = ZeroBoard
    /\ row' = 0
    /\ col' = 0
    /\ tiles' = <<>>
    /\ stale' = FALSE
    /\ score_text' = <<>>
    /\ reward' = 0
    /\ action' = 0
    /\ delay' = 0

Raise(e) == Return(RetOf(op, e, ZeroBoard, 0, FALSE, 0))

\* the nodes the methods look up by class name are on the page
HealthyPage == [score |-> TRUE, restart |-> TRUE]

\* no tile slides or merges when the game moves board g in direction d
Blocked(g, d) ==
    LET r == MoveResult(g, d)
    IN  \A c \in Cells : r[c].val = g[c]

\* the call is a step with an action in range, the action is blocked on
\* the board at the call, the score the delivered key gained
NoEffect == [valid |-> FALSE, blocked |-> FALSE, gain |-> 0]

Begin(o, p, a, d) ==
    /\ pc = "idle"
    /\ IF o \in {"step", "reset"}
       THEN calls < budget /\ calls' = calls + 1
       ELSE calls' = calls
    /\ effect' = [valid   |-> o = "step" /\ a \in 0 .. (NumActions - 1),
                  blocked |-> /\ o = "step"
                              /\ a \in 0 .. (NumActions - 1)
                              /\ Blocked(grid, Keys[a + 1]),
                  gain    |-> 0]
    /\ seen' = <<>>
    /\ lastNew' = IF o = "step" THEN lastNew ELSE <<>>
    /\ UNCHANGED <<ctx>>
    /\ op' = o
    /\ pc' = p
    /\ action' = a
    /\ delay' = d
    /\ sent' = <<>>
    /\ touched' = FALSE
    /\ slept' = FALSE
    /\ stage' = IF o = "step" THEN "prev" ELSE "none"
    /\ ret' = NoRet
    /\ lastGS' = IF o \in {"step", "reset"} THEN <<>> ELSE lastGS
    /\ UNCHANGED <<gameVars, dom, prev_score, state, row, col, tiles, stale,
                   score_text, reward, settled>>

CallStep(a, d) ==
    /\ Begin("step", "sc_text", a, d)
    /\ UNCHANGED lastOver

CallGetState ==
    /\ Begin("get_state", "gs_init", 0, 0)
    /\ UNCHANGED lastOver

CallGetScore ==
    /\ Begin("get_score", "sc_text", 0, 0)
    /\ UNCHANGED lastOver

CallIsOver ==
    /\ Begin("is_over", "over", 0, 0)
    /\ UNCHANGED lastOver

CallReset(d) ==
    /\ Begin("reset", "click", 0, d)
    /\ lastOver' = FALSE

FindElementQuiet(present) == "none"

\* find_element_by_class_name, lines 139 and 177: no node of the class
\* raises, and nothing around these two lookups catches it
FindElement(present) ==
    IF present THEN "none" ELSE "NoSuchElementException"

\* get_score, lines 139-140
ScoreText ==
    /\ pc = "sc_text"
    /\ touched' = TRUE
    /\ IF FindElement(page.score) # "none"
       THEN /\ Raise(FindElement(page.score))
            /\ lastNew' = <<>>
       ELSE /\ score_text' = dom.scoreText
            /\ pc' = "sc_child"
            /\ UNCHANGED <<op, stage, action, delay, prev_score, state, row,
                           col, tiles, stale, reward, ret, lastNew>>
    /\ UNCHANGED <<gameVars, dom, calls, sent, slept, settled, lastGS,
                   lastOver, ctx, effect, seen>>

\* get_score, lines 145-152, and the statement of the caller that uses it
ScoreChild ==
    /\ pc = "sc_child"
    /\ LET v == GetScoreValue(score_text, dom.child)
       IN  IF ~v.ok
           THEN /\ Raise("ValueError")
                /\ lastNew' = <<>>
           ELSE IF op = "get_score"
           THEN /\ Return(RetOf(op, "none", ZeroBoard, 0, FALSE, v.val))
                /\ UNCHANGED lastNew
           ELSE IF stage = "prev"
           THEN /\ prev_score' = v.val
                /\ pc' = StepFlow("prev")
                /\ score_text' = <<>>
                /\ UNCHANGED <<op, stage, state, row, col, tiles, stale,
                               reward, ret, action, delay, lastNew>>
           ELSE /\ reward' = v.val - prev_score
                /\ lastNew' = <<v.val>>
                /\ pc' = StepFlow("new")
                /\ score_text' = <<>>
                /\ UNCHANGED <<op, stage, prev_score, state, row, col, tiles,
                               stale, ret, action, delay>>
    /\ UNCHANGED <<gameVars, dom, calls, histVars, ctx, effect,
                   seen>>

\* step, line 95
Perform ==
    /\ pc = "perform"
    /\ LET i == ListIndex(NumActions, action)
       IN  IF ~i.ok
           THEN /\ Raise("IndexError")
                /\ UNCHANGED <<gameVars, sent, touched, settled, lastGS,
                               effect>>
           ELSE /\ \E o \in KeyOutcomes(Keys[i.idx + 1]) :
                      /\ grid' = o.grid
                      /\ gscore' = o.gscore
                      /\ gover' = o.gover
                      /\ pending' = o.pending
                      /\ effect' = [effect EXCEPT
                                       !.gain = o.gscore - gscore]
                /\ sent' = Append(sent, Keys[i.idx + 1])
                /\ touched' = TRUE
                /\ settled' = FALSE
                /\ lastGS' = <<>>
                /\ pc' = StepFlow("perform")
                /\ UNCHANGED <<op, stage, prev_score, state, row, col, tiles,
                               stale, score_text, reward, ret, action, delay>>
    /\ lastNew' = <<>>
    /\ UNCHANGED <<dom, calls, slept, lastOver, ctx, seen>>

\* reset, line 177
Click ==
    /\ pc = "click"
    /\ touched' = TRUE
    /\ IF FindElement(page.restart) # "none"
       THEN /\ Raise(FindElement(page.restart))
            /\ UNCHANGED <<gameVars, dom, sent, settled, lastGS>>
       ELSE /\ \E g \in StartGrids :
                  /\ grid' = g
                  /\ pending' = RestartFrames(g)
            /\ gscore' = 0
            /\ gover' = FALSE
            /\ dom' = [dom EXCEPT !.over = FALSE]
            /\ sent' = Append(sent, "CLICK")
            /\ settled' = FALSE
            /\ lastGS' = <<>>
            /\ pc' = "sleep"
            /\ UNCHANGED <<op, localVars, ret>>
    /\ UNCHANGED <<calls, slept, lastOver, ctx, effect, seen,
                   lastNew>>

\* step, line 96; reset, line 178
Sleep ==
    /\ pc = "sleep"
    /\ LET n == Min(SleepFrames(delay), Len(pending))
       IN  /\ dom' = IF n = 0 THEN dom ELSE pending[n].view
           /\ pending' = SubSeq(pending, n + 1, Len(pending))
    /\ slept' = TRUE
    /\ settled' = (delay >= SettleFrames)
    /\ pc' = IF op = "step" THEN StepFlow("sleep") ELSE "gs_init"
    /\ UNCHANGED <<grid, gscore, gover, op, localVars, ret, calls, sent,
                   touched, lastGS, lastOver, ctx, effect, seen,
                   lastNew>>

\* the tile value a position of the rendered surface displays (spec.md 4.1):
\* empty without a node, the number of its node, the number of the merge
\* result among several nodes; None while it displays no number
ShownValue(ts) ==
    LET ms == {i \in 1 .. Len(ts) : ts[i].merged}
        n  == IF Len(ts) = 1 THEN 1
              ELSE IF ms = {} THEN 0
              ELSE CHOOSE i \in ms : \A j \in ms : i <= j
    IN  IF Len(ts) = 0 THEN 0
        ELSE IF n = 0 \/ ts[n].text = <<>> THEN None
        ELSE DigitsValue(ts[n].text)

\* the board a tile layer displays, row by row
ShownBoard(tl) ==
    [r \in Idx |-> [c \in Idx |-> ShownValue(tl[<<c + 1, r + 1>>])]]

\* get_state, line 108
GSInit ==
    /\ pc = "gs_init"
    /\ state' = ZeroBoard
    /\ row' = 0
    /\ col' = 0
    /\ pc' = "gs_find"
    /\ seen' = IF watch THEN <<dom.tiles>> ELSE <<>>
    /\ UNCHANGED <<gameVars, dom, op, stage, action, delay, prev_score, tiles,
                   stale, score_text, reward, ret, calls, histVars, ctx, effect, lastNew>>

Last2(s) == IF Len(s) <= 2 THEN s ELSE SubSeq(s, Len(s) - 1, Len(s))

\* get_state, line 126 and what follows it: the loops go on, or line 131
\* returns and the caller's next statement runs
Store(tile_num) ==
    LET st == [state EXCEPT ![row][col] = tile_num]
    IN  IF ~LoopExits(tile_num)
        THEN /\ state' = st
             /\ pc' = "gs_find"
             /\ UNCHANGED <<op, stage, prev_score, row, col, score_text,
                            reward, ret, lastGS, action, delay>>
        ELSE IF col < N - 1
        THEN /\ state' = st
             /\ col' = col + 1
             /\ pc' = "gs_find"
             /\ UNCHANGED <<op, stage, prev_score, row, score_text, reward,
                            ret, lastGS, action, delay>>
        ELSE IF row < N - 1
        THEN /\ state' = st
             /\ row' = row + 1
             /\ col' = 0
             /\ pc' = "gs_find"
             /\ UNCHANGED <<op, stage, prev_score, score_text, reward, ret,
                            lastGS, action, delay>>
        ELSE /\ lastGS' = Last2(Append(lastGS, st))
             /\ IF op = "step"
                THEN /\ state' = st
                     /\ row' = 0
                     /\ col' = 0
                     /\ stage' = "new"
                     /\ pc' = StepFlow("state")
                     /\ UNCHANGED <<op, prev_score, score_text, reward, ret,
                                    action, delay>>
                ELSE Return(RetOf(op, "none", st, 0, FALSE, 0))

\* get_state, lines 116-118
GSFind ==
    /\ pc = "gs_find"
    /\ touched' = TRUE
    /\ LET ts == dom.tiles[TileClass(row, col)]
       IN  IF Len(ts) = 0
           THEN /\ Store(CellOutcome(ts).val)
                /\ tiles' = <<>>
                /\ stale' = FALSE
           ELSE /\ tiles' = ts
                /\ stale' = FALSE
                /\ pc' = "gs_read"
                /\ UNCHANGED <<op, stage, prev_score, state, row, col,
                               score_text, reward, ret, lastGS, action, delay>>
    /\ UNCHANGED <<gameVars, dom, calls, sent, slept, settled, lastOver,
                   ctx, effect, seen, lastNew>>

\* get_state, lines 119-125: what reading the nodes found raises
ReadError(ts, gone) ==
    IF gone THEN "StaleElementReferenceException"
    ELSE IF ~CellOutcome(ts).ok THEN "ValueError"
    ELSE "none"

CaughtParseOnly(e) == e = "ValueError"

\* get_state, lines 127-130: the except clauses
Caught(e) == e \in {"ValueError", "StaleElementReferenceException"}

\* get_state, lines 119-130
GSRead ==
    /\ pc = "gs_read"
    /\ tiles' = <<>>
    /\ stale' = FALSE
    /\ IF ReadError(tiles, stale) = "none"
       THEN Store(CellOutcome(tiles).val)
       ELSE IF Caught(ReadError(tiles, stale))
       THEN /\ pc' = "gs_find"
            /\ UNCHANGED <<op, stage, prev_score, state, row, col,
                           score_text, reward, ret, lastGS, action, delay>>
       ELSE /\ Raise(ReadError(tiles, stale))
            /\ UNCHANGED lastGS
    /\ UNCHANGED <<gameVars, dom, calls, sent, touched, slept, settled,
                   lastOver, ctx, effect, seen, lastNew>>

\* is_over, lines 161-167, and line 100 of step
IsOver ==
    /\ pc = "over"
    /\ touched' = TRUE
    /\ lastOver' = IsOverStatus(dom.over)
    /\ IF op = "step"
       THEN Return(RetOf(op, "none", state, reward,
                         IsOverStatus(dom.over), 0))
       ELSE Return(RetOf(op, "none", ZeroBoard, 0,
                         IsOverStatus(dom.over), 0))
    /\ UNCHANGED <<gameVars, dom, calls, sent, slept, settled, lastGS,
                   ctx, effect, seen, lastNew>>

\* the page draws its next frame
Render ==
    /\ pending # <<>>
    /\ dom' = Head(pending).view
    /\ pending' = Tail(pending)
    /\ stale' = (stale \/ (pc = "gs_read" /\ Head(pending).clear))
    /\ seen' = IF watch /\ pc \in {"gs_find", "gs_read"}
               THEN Append(seen, Head(pending).view.tiles)
               ELSE seen
    /\ UNCHANGED <<grid, gscore, gover, op, pc, stage, action, delay,
                   prev_score, state, row, col, tiles, score_text, reward,
                   ret, calls, histVars, ctx, effect, lastNew>>

----------------------------------------------------------------------------
(* The environment after construction, driven by any caller *)

Quiet ==
    /\ stage = "none"
    /\ action = 0
    /\ delay = 0
    /\ prev_score = 0
    /\ state = ZeroBoard
    /\ row = 0
    /\ col = 0
    /\ tiles = <<>>
    /\ stale = FALSE
    /\ score_text = <<>>
    /\ reward = 0
    /\ ret = NoRet
    /\ sent = <<>>
    /\ touched = FALSE
    /\ slept = FALSE
    /\ settled = TRUE
    /\ lastGS = <<>>
    /\ lastOver = FALSE
    /\ effect = NoEffect
    /\ seen = <<>>
    /\ lastNew = <<>>

\* the constructor has loaded a page pg holding one of the games; the
\* caller goes on to make n step and reset calls
Constructed(games, pg, n) ==
    /\ \E lg \in games :
          /\ grid = lg.grid
          /\ gscore = lg.gscore
          /\ dom = View(StableTiles(lg.grid), lg.gscore, 0, FALSE)
    /\ gover = FALSE
    /\ op = "none"
    /\ pc = "idle"
    /\ calls = 0
    /\ budget = n
    /\ page = pg
    /\ pending = <<>>
    /\ Quiet

Init ==
    /\ Constructed(LoadedGames, HealthyPage, MaxCalls)
    /\ watch = FALSE

Next ==
    \/ \E a \in ActionInputs, d \in DelayInputs : CallStep(a, d)
    \/ CallGetState
    \/ CallGetScore
    \/ CallIsOver
    \/ \E d \in DelayInputs : CallReset(d)
    \/ ScoreText
    \/ ScoreChild
    \/ Perform
    \/ Click
    \/ Sleep
    \/ GSInit
    \/ GSFind
    \/ GSRead
    \/ IsOver
    \/ Render

Spec == Init /\ [][Next]_vars

\* the same environment under a caller that makes one more step or reset
\* call, so that one command follows another
InitTwo ==
    /\ Constructed(LoadedGames, HealthyPage, MaxCalls + 1)
    /\ watch = FALSE

SpecTwo == InitTwo /\ [][Next]_vars

\* pages that lack the score container, the restart trigger, or both
BrokenPages ==
    {pg \in [score : BOOLEAN, restart : BOOLEAN] : pg # HealthyPage}

\* the same environment constructed on such a page
InitBroken ==
    /\ \E pg \in BrokenPages : Constructed(LoadedGames, pg, MaxCalls)
    /\ watch = FALSE

SpecBroken == InitBroken /\ [][Next]_vars

\* the same environment as Spec, with the tile layers drawn during each
\* extraction on record
InitWatch ==
    /\ Constructed(LoadedGames, HealthyPage, MaxCalls)
    /\ watch = TRUE

SpecWatch == InitWatch /\ [][Next]_vars

----------------------------------------------------------------------------
(* get_score alone, on every score container of a bounded set *)

TestScores == {4 * k : k \in 0 .. 30} \cup {1280}
TestAdds == {0, 4, 8, 16}

NoGrid == [c \in Cells |-> 0]

InitScore ==
    /\ \E s \in TestScores, a \in TestAdds :
          /\ gscore = s
          /\ dom = View(StableTiles(NoGrid), s, a, FALSE)
    /\ grid = NoGrid
    /\ gover = FALSE
    /\ op = "get_score"
    /\ pc = "sc_text"
    /\ calls = 0
    /\ budget = MaxCalls
    /\ watch = FALSE
    /\ page = HealthyPage
    /\ pending = <<>>
    /\ Quiet

NextScore ==
    \/ ScoreText
    \/ ScoreChild

SpecScore == InitScore /\ [][NextScore]_vars

(* get_state alone, on every node list of a bounded set at one position *)

MaxNodes == 3       \* nodes rendered at the position

TestNodes == {[text |-> t, merged |-> m] : t \in {<<>>, <<2>>, <<4>>},
                                          m \in BOOLEAN}

NodeLists == UNION {[1 .. n -> TestNodes] : n \in 0 .. MaxNodes}

InitCell ==
    /\ \E ts \in NodeLists :
          dom = View([c \in Cells |-> IF c = <<1, 1>> THEN ts ELSE <<>>],
                     0, 0, FALSE)
    /\ grid = NoGrid
    /\ gscore = 0
    /\ gover = FALSE
    /\ op = "get_state"
    /\ pc = "gs_init"
    /\ calls = 0
    /\ budget = MaxCalls
    /\ watch = FALSE
    /\ page = HealthyPage
    /\ pending = <<>>
    /\ Quiet

NextCell ==
    \/ GSInit
    \/ GSFind
    \/ GSRead

SpecCell == InitCell /\ [][NextCell]_vars

(* get_state over one position of a surface that is still to be redrawn,  *)
(* or is not                                                               *)

OneCell(ts) == [c \in Cells |-> IF c = <<1, 1>> THEN ts ELSE <<>>]

\* what the surface redraws the position to: nothing, a tile, a tile without
\* its text, two tiles
RedrawNodes ==
    {<<>>, <<Node(2, FALSE)>>, <<Blank>>, <<Node(2, FALSE), Node(2, FALSE)>>}

RedrawFrames ==
    {<<>>} \cup {<<[clear |-> cl, view |-> View(OneCell(ts), 0, 0, FALSE)]>> :
                    ts \in RedrawNodes, cl \in BOOLEAN}

InitRedraw ==
    /\ \E ts \in NodeLists, fr \in RedrawFrames :
          /\ dom = View(OneCell(ts), 0, 0, FALSE)
          /\ pending = fr
    /\ grid = NoGrid
    /\ gscore = 0
    /\ gover = FALSE
    /\ op = "get_state"
    /\ pc = "gs_init"
    /\ calls = 0
    /\ budget = MaxCalls
    /\ watch = TRUE
    /\ page = HealthyPage
    /\ Quiet

NextRedraw ==
    \/ GSInit
    \/ GSFind
    \/ GSRead
    \/ Render

\* the thread inside get_state keeps running and the page keeps drawing the
\* frames it has scheduled
SpecRedraw ==
    /\ InitRedraw
    /\ [][NextRedraw]_vars
    /\ WF_vars(GSInit \/ GSFind \/ GSRead)
    /\ WF_vars(Render)

----------------------------------------------------------------------------
(* Claims *)

Returned(o) == pc = "idle" /\ ret.op = o /\ ret.err = "none"

\* C1: for every action index outside 0..3, step delivers no key command to
\* the game and does not get past the indexing of self.actions.
C1_OutOfRangeRejected ==
    (op = "step" /\ action \notin 0 .. (NumActions - 1))
        => (sent = <<>> /\ pc \in {"sc_text", "sc_child", "perform"})

\* C2: when step raises for an out-of-range action index, the call has not
\* used the Session at all.
C2_RejectedBeforeSession ==
    (pc = "idle" /\ ret.op = "step" /\ ret.err = "IndexError") => ~touched

\* C3: when the container's text is the text of the score S followed by the
\* child annotation's text, get_score returns exactly S and raises nothing.
C3_ScoreStripped ==
    (pc = "idle" /\ ret.op = "get_score")
        => (ret.err = "none" /\ ret.score = dom.S)

\* C4: every reward step returns is >= 0 (the game's score never decreases
\* within an episode).
C4_RewardNonNegative ==
    Returned("step") => ret.reward >= 0

BoardOK(b) ==
    /\ DOMAIN b = Idx
    /\ \A r \in Idx :
          /\ DOMAIN b[r] = Idx
          /\ \A c \in Idx : b[r][c] \in Nat

\* C5: every board get_state, step or reset returns has 4 rows of 4 entries,
\* each a non-negative integer, never None.
C5_BoardShape ==
    (Returned("get_state") \/ Returned("step") \/ Returned("reset"))
        => BoardOK(ret.board)

C5_Witness ==
    /\ Returned("step")
    /\ \E r \in Idx, c \in Idx : ret.board[r][c] = 0
    /\ \E r \in Idx, c \in Idx : ret.board[r][c] > 0
    /\ \E c \in Cells : Len(dom.tiles[c]) >= 2

\* C6: once get_state has resolved a position, the value it holds for it is
\* the parsed text of a node flagged as merge result when two or more nodes
\* are rendered there and one is flagged, whatever their order and whatever
\* the other nodes show; with exactly one node it is that node's parsed text.
C6_MergeTieBreak ==
    LET ts == dom.tiles[<<1, 1>>]
        v  == IF pc = "idle" THEN ret.board[0][0] ELSE state[0][0]
    IN  (pc = "idle" \/ (pc \in {"gs_find", "gs_read"} /\ <<row, col>> # <<0, 0>>))
        => /\ (Len(ts) >= 2 /\ \E i \in 1 .. Len(ts) : ts[i].merged)
                 => \E i \in 1 .. Len(ts) :
                       /\ ts[i].merged
                       /\ ts[i].text # <<>>
                       /\ v = DigitsValue(ts[i].text)
           /\ Len(ts) = 1
                 => (ts[1].text # <<>> /\ v = DigitsValue(ts[1].text))

C6_Witness ==
    /\ Returned("get_state")
    /\ Len(dom.tiles[<<1, 1>>]) = 3
    /\ dom.tiles[<<1, 1>>][1] = [text |-> <<2>>, merged |-> FALSE]
    /\ dom.tiles[<<1, 1>>][2] = [text |-> <<4>>, merged |-> TRUE]
    /\ ret.board[0][0] = 4

\* C7: within one step the key command comes first, then the settle wait,
\* and only then the board, new-score and termination reads; only the
\* previous-score read precedes the key command.
C7_StepOrder ==
    op = "step" =>
        /\ (pc \in {"sc_text", "sc_child"} /\ stage = "prev")
              => (sent = <<>> /\ ~slept)
        /\ pc = "perform" => (sent = <<>> /\ ~slept)
        /\ pc = "sleep" => (Len(sent) = 1 /\ ~slept)
        /\ (pc \in {"gs_init", "gs_find", "gs_read", "over"} \/ stage = "new")
              => (Len(sent) = 1 /\ slept)

C7_Witness ==
    /\ op = "step"
    /\ pc = "over"
    /\ sent = <<"LEFT">>
    /\ slept

C9_Idempotent ==
    Len(lastGS) = 2 => lastGS[1] = lastGS[2]

\* C9 amended: two consecutive extractions with no command between them
\* return identical boards when the last command was followed by a settle
\* wait of at least a full render (or no command was issued since loading).
C9_IdempotentSettled ==
    (Len(lastGS) = 2 /\ settled) => lastGS[1] = lastGS[2]

C9_Witness ==
    /\ Returned("get_state")
    /\ calls = 1
    /\ settled
    /\ Len(lastGS) = 2
    /\ lastGS[2] = BoardOf(grid)
    /\ \E c \in Cells : Len(dom.tiles[c]) = 3

ResetContract ==
    /\ sent = <<"CLICK">>
    /\ slept
    /\ grid \in StartGrids
    /\ ret.board = BoardOf(grid)
    /\ ~dom.over

C11_BlockedStep ==
    (pc = "idle" /\ ret.op = "step" /\ effect.blocked) =>
        /\ ret.err = "none"
        /\ ret.board = BoardOf(grid)
        /\ ret.reward = 0

ReadOnly == {"get_state", "get_score", "is_over"}

\* C12: every step call with an action in 0..3 delivers exactly one command
\* to the game, the key UP, LEFT, DOWN, RIGHT of that action and never a
\* click; get_state, get_score and is_over deliver no command at all, so the
\* game's board, score and termination flag stay as they were.
C12_OneKeyPerStep ==
    /\ (pc = "idle" /\ ret.op = "step" /\ effect.valid) =>
           (Len(sent) = 1 /\ sent[1] # "CLICK")
    /\ (op = "step" /\ effect.valid /\ sent # <<>>) =>
           sent = <<Keys[action + 1]>>
    /\ (op \in ReadOnly \/ (pc = "idle" /\ ret.op \in ReadOnly)) =>
           sent = <<>>

\* the nodes just found cannot be turned into a tile value
Transient ==
    /\ pc = "gs_read"
    /\ \/ ReadError(tiles, stale) # "none"
       \/ CellOutcome(tiles).val = None

Extracting == pc \in {"gs_find", "gs_read"}

\* C13: when reading a cell fails transiently (text that does not parse, a
\* stale node, several nodes none of them a merge result) the call goes on:
\* nothing is returned or raised, the same cell is looked up again, and the
\* cell holds no tile value; the board an extraction hands on holds no
\* unresolved cell.
C13_TransientRetried ==
    [][/\ (Transient /\ pc' # pc) =>
            /\ op' = op
            /\ ret' = ret
            /\ pc' = "gs_find"
            /\ row' = row
            /\ col' = col
            /\ state'[row][col] \in {state[row][col], None}
       /\ (Extracting /\ ~Extracting') =>
            /\ ret'.err = "none"
            /\ \A r \in Idx, c \in Idx :
                  (IF op' = "step" THEN state' ELSE ret'.board)[r][c] # None
      ]_vars

\* a cell of several nodes, none a merge result, is being looked up again
\* inside a step
C13_Witness ==
    /\ op = "step"
    /\ pc = "gs_find"
    /\ state[row][col] = None

\* C14: with the score container absent, get_score fails with the lookup's
\* own error at its first lookup (it never gets past it); a step fails the
\* same way at its previous-score read, with no command sent and no wait;
\* with the restart trigger absent, reset fails at the lookup, with no
\* click, no wait and no extraction.
C14_HardLookupFailure ==
    /\ (~page.score /\ op \in {"get_score", "step"}) =>
           (pc = "sc_text" /\ sent = <<>> /\ ~slept)
    /\ (~page.score /\ pc = "idle" /\ ret.op \in {"get_score", "step"}) =>
           /\ ret.err = "NoSuchElementException"
           /\ sent = <<>>
           /\ ~slept
    /\ (~page.restart /\ op = "reset") =>
           (pc = "click" /\ sent = <<>> /\ ~slept)
    /\ (~page.restart /\ pc = "idle" /\ ret.op = "reset") =>
           /\ ret.err = "NoSuchElementException"
           /\ sent = <<>>
           /\ ~slept
           /\ lastGS = <<>>

\* a step has failed on a page without score container
C14_Witness ==
    /\ ~page.score
    /\ pc = "idle"
    /\ ret.op = "step"
    /\ ret.err = "NoSuchElementException"
    /\ touched

\* the last extraction has read all its cells
ExtractionDone == seen # <<>> /\ ~Extracting

LastBoard == lastGS[Len(lastGS)]

\* C15 as stated: the board an extraction returns is the board of one of
\* the tile layers the surface displayed while the cells were read, never a
\* mix of two of them.
C15_Snapshot ==
    ExtractionDone =>
        \E i \in 1 .. Len(seen) : LastBoard = ShownBoard(seen[i])

\* C15, amended: when the surface is not redrawn while the cells are read,
\* the board an extraction returns is the board the surface displays.
C15_SnapshotAtRest ==
    (ExtractionDone /\ Len(seen) = 1) => LastBoard = ShownBoard(seen[1])

\* a step has extracted, without a redraw in between, a board on which its
\* key merged two tiles
C15_Witness ==
    /\ ExtractionDone
    /\ Len(seen) = 1
    /\ op = "step"
    /\ effect.gain > 0

\* every position of the tile layer displays a tile value or is empty; of
\* several merge results the code reads the first
Resolved(tl) == \A c \in Cells : ShownValue(tl[c]) # None

\* the position get_state is at or has yet to read
Ahead(c) == (c[2] - 1) * N + (c[1] - 1) >= row * N + col

\* get_state leaves its loops at the last cell, returning a board of tile
\* values
LeavesResolved ==
    (Extracting /\ ~Extracting') =>
        /\ row = N - 1
        /\ col = N - 1
        /\ ret'.err = "none"
        /\ \A r \in Idx, c \in Idx : ret'.board[r][c] \in Nat

\* get_state is running on a surface at rest with every position resolved
AtRestResolved ==
    op = "get_state" /\ pending = <<>> /\ Resolved(dom.tiles)

\* get_state is about to look up a cell on a surface at rest that has an
\* unresolved position among the cells still to read
AtRestUnresolved ==
    /\ pc = "gs_find"
    /\ pending = <<>>
    /\ \E c \in Cells : Ahead(c) /\ ShownValue(dom.tiles[c]) = None

HasReturned == pc = "idle" /\ ret.err = "none"

StillInside == op = "get_state" /\ pc # "idle"

\* C16: get_state leaves its loops only at the last cell and with every
\* cell resolved; once the surface has come to rest with every position
\* resolved, the running get_state returns; once it has come to rest with an
\* unresolved position that get_state has yet to read, get_state never
\* returns and never raises.
C16_ReturnsIffResolved ==
    /\ [][LeavesResolved]_vars
    /\ AtRestResolved ~> HasReturned
    /\ [](AtRestUnresolved => []StillInside)

\* get_state has returned a board although the position first showed
\* nothing it could read: a redraw resolved it
C16_Witness ==
    /\ pc = "idle"
    /\ ret.op = "get_state"
    /\ ret.err = "none"
    /\ Len(seen) = 2
    /\ ShownValue(seen[1][<<1, 1>>]) = None

\* a step has just read its previous score, and the step before it returned
\* a reward, computed from the score lastNew[1], with no call in between
NextStepRead == op = "step" /\ pc = "perform" /\ lastNew # <<>>

TerminalBoard(b) ==
    /\ \A r \in Idx, c \in Idx : b[r][c] > 0
    /\ \A r \in Idx, c \in Idx :
          /\ c < N - 1 => b[r][c] # b[r][c + 1]
          /\ r < N - 1 => b[r][c] # b[r + 1][c]

\* C18: the values one step returns fit together: when done is true the
\* board is a terminal board, and the reward is the score gained by the key
\* this step delivered, the move that made the board.
C18_StepConsistent ==
    Returned("step") =>
        /\ ret.done => TerminalBoard(ret.board)
        /\ ret.reward = effect.gain

============================================================================
